---- MODULE Spec2Model ----
(***************************************************************************)
(* Model of firmware/isp.c (USBasp): the ISP programming engine.          *)
(*                                                                         *)
(* The firmware is single threaded.  Short operations are one action;     *)
(* the two loops that wait on the outside world (the handshake loop of    *)
(* ispEnterProgrammingMode and the data-polling loops of ispWriteFlash    *)
(* and ispFlushPage) are one action per loop iteration, with pc naming    *)
(* the loop the firmware is in.  The target microcontroller and the       *)
(* free-running timer are the environment.                                *)
(*                                                                         *)
(* TIMERVALUE is advanced where a memory operation reads it or waits on   *)
(* it (the polling loops and their fixed-wait alternatives); the time     *)
(* spent in the other operations is not kept.  A call through the null    *)
(* transport pointer (no ispSetSCKOption yet) is not modelled.  A         *)
(* transmission through ispTransmit_hw while the peripheral is disabled   *)
(* never returns: the firmware stays in pc = "hang".                      *)
(***************************************************************************)
EXTENDS Integers, Sequences, FiniteSets, TLC

(***************************************************************************)
(* Program constants.  The speed options and CLOCK_T_320us come from      *)
(* usbasp.h / clock.h; the values of the software tiers are fixed by the  *)
(* table of isp.c lines 72-85 together with the shift of line 89.         *)
(***************************************************************************)
USBASP_ISP_SCK_AUTO == 0
USBASP_ISP_SCK_0_5 == 1
USBASP_ISP_SCK_32 == 7
USBASP_ISP_SCK_93_75 == 8
USBASP_ISP_SCK_187_5 == 9
USBASP_ISP_SCK_375 == 10
USBASP_ISP_SCK_750 == 11
USBASP_ISP_SCK_1500 == 12
USBASP_ISP_SCK_3000 == 13
CLOCK_T_320us == 60

(***************************************************************************)
(* Bounds of the model.                                                    *)
(***************************************************************************)
\* largest speed option the dispatcher hands over (a uchar in the firmware)
MaxOption == 14

\* speed options requested: automatic, the ends of the software and of the
\* hardware range, the default, and one past the last defined option
Options == {0, 1, 2, 7, 8, 12, 13, MaxOption}
\* extended-address windows exercised: the first, the one whose high byte
\* is the sentinel, and the first one past the 8 bits kept of address >> 17
Windows == {0, 255, 256}
\* the low and the high byte of the first word of a window
Offsets == {0, 1}
Addresses == {w * 131072 + o : w \in Windows, o \in Offsets}
\* data bytes: an ordinary value, the two polling sentinels
Data == {18, 127, 255}
\* timer ticks that pass during one wait or one poll iteration
TickAdvances == {32, 64, 224, 256}

VARIABLES
    DANGEROUS_MODE,  \* build flag of the speed bump after the handshake
    prog_sck,        \* speed_tier
    ispTransmit,     \* transport: "none" (null pointer), "hw", "sw"
    SPCR, SPSR,      \* peripheral registers, as the set of bits that are set
    sck_sw_delay,    \* bit_delay
    isp_hiaddr,      \* cached_high_address
    ISP_DDR, ISP_OUT,\* line direction / output bits, as sets of lines
    TIMERVALUE,      \* free-running 8 bit tick counter
    pc,              \* "idle", "attempt", "pollW", "pollF", "hang"
    spiTx, tries,    \* locals of ispEnterProgrammingMode
    retries, starttime, \* locals of the polling loops
    call,            \* the operation being executed and its arguments
    ret,             \* value returned by the last finished operation
    target,          \* the target microcontroller
    host,            \* the requests the host side may issue
    obs              \* what the last step put on the wire and waited for

vars == <<DANGEROUS_MODE, prog_sck, ispTransmit, SPCR, SPSR, sck_sw_delay,
          isp_hiaddr, ISP_DDR, ISP_OUT, TIMERVALUE, pc, spiTx, tries,
          retries, starttime, call, ret, target, host, obs>>

(***************************************************************************)
(* Arithmetic of the firmware                                              *)
(***************************************************************************)
RECURSIVE Pow2(_)
Pow2(n) == IF n = 0 THEN 1 ELSE 2 * Pow2(n - 1)

\* x >> n
Shr(x, n) == x \div Pow2(n)

\* conversion to uchar / uint8_t
U8(x) == x % 256

\* variant: the byte address shift instead of the word address shift
CurrHiaddr_16(address) == U8(Shr(address, 16))

\* curr_hiaddr = (address >> 17), stored in a uchar
CurrHiaddr(address) == U8(Shr(address, 17))

\* variant: a linear series of delays
SwDelay_linear(option) == U8(3 * (USBASP_ISP_SCK_32 - option + 1))

\* 3 << (USBASP_ISP_SCK_32 - option), stored in a uchar
SwDelay(option) == U8(3 * Pow2(USBASP_ISP_SCK_32 - option))

\* (uint8_t) (TIMERVALUE - starttime) > CLOCK_T_320us
WindowExpired(now, start) == U8(now - start + 256) > CLOCK_T_320us

(***************************************************************************)
(* Speed controller: ispSetSCKOption                                       *)
(***************************************************************************)
\* variant: the double-speed bit is never set
HwSPSR_never(option) == {}

\* SPSR after the switch of the hardware branch
HwSPSR(option) ==
    IF option \in {USBASP_ISP_SCK_3000, USBASP_ISP_SCK_750,
                   USBASP_ISP_SCK_187_5, USBASP_ISP_SCK_93_75}
    THEN {}
    ELSE {"SPI2X"}

\* SPCR after the switch of the hardware branch
HwSPCR(option) ==
    CASE option = USBASP_ISP_SCK_3000 -> {}
      [] option \in {USBASP_ISP_SCK_375, USBASP_ISP_SCK_187_5} -> {"SPR1"}
      [] option = USBASP_ISP_SCK_93_75 -> {"SPR1", "SPR0"}
      [] OTHER -> {"SPR0"}

\* the state ispSetSCKOption(option) leaves, given the registers before
SckConfig(option, spcr, spsr, delay) ==
    LET opt == IF option = USBASP_ISP_SCK_AUTO THEN USBASP_ISP_SCK_1500
               ELSE option
    IN  IF opt >= USBASP_ISP_SCK_93_75
        THEN [tx |-> "hw", SPCR |-> HwSPCR(opt), SPSR |-> HwSPSR(opt),
              delay |-> 1]
        ELSE [tx |-> "sw", SPCR |-> spcr, SPSR |-> spsr,
              delay |-> SwDelay(opt)]

\* SPCR |= (1 << SPE) | (1 << MSTR)
spiHWenable(spcr) == spcr \cup {"SPE", "MSTR"}

\* variant: the enable bit is toggled instead of the register cleared
spiHWdisable_flip == IF "SPE" \in SPCR THEN {} ELSE {"SPE"}

\* SPCR = 0
spiHWdisable == {}

\* SPCR after "if (ispTransmit == ispTransmit_hw) spiHWenable();"
EnableIfHw(tx, spcr) == IF tx = "hw" THEN spiHWenable(spcr) ELSE spcr

(***************************************************************************)
(* The link as the target sees it                                          *)
(***************************************************************************)
\* clock divide ratio the peripheral is left with (SPR1, SPR0, SPI2X)
DivideRatio(spcr, spsr) ==
    LET base == CASE {"SPR1", "SPR0"} \subseteq spcr -> 128
                  [] "SPR1" \in spcr -> 64
                  [] "SPR0" \in spcr -> 16
                  [] OTHER -> 4
    IN  IF "SPI2X" \in spsr THEN base \div 2 ELSE base

\* the speed tier the link really runs at; 0 when it matches no tier
LinkTier(tx, spcr, spsr, delay) ==
    IF tx = "hw"
    THEN LET r == DivideRatio(spcr, spsr)
         IN  CASE r = 4 -> USBASP_ISP_SCK_3000
               [] r = 8 -> USBASP_ISP_SCK_1500
               [] r = 16 -> USBASP_ISP_SCK_750
               [] r = 32 -> USBASP_ISP_SCK_375
               [] r = 64 -> USBASP_ISP_SCK_187_5
               [] r = 128 -> USBASP_ISP_SCK_93_75
               [] OTHER -> 0
    ELSE IF \E t \in USBASP_ISP_SCK_0_5..USBASP_ISP_SCK_32 : SwDelay(t) = delay
         THEN CHOOSE t \in USBASP_ISP_SCK_0_5..USBASP_ISP_SCK_32 :
                  SwDelay(t) = delay
         ELSE 0

\* ispTransmit_hw returns only when the peripheral sets SPIF, which it does
\* only while enabled as master; ispTransmit_sw always returns
TxWorks(tx, spcr) == tx = "sw" \/ (tx = "hw" /\ {"SPE", "MSTR"} \subseteq spcr)

\* ISP_OUT after ispTransmit_sw sent a byte: SCK low, MOSI at the last bit
SwLines(out, lastByte) ==
    (out \ {"SCK", "MOSI"}) \cup (IF lastByte % 2 = 1 THEN {"MOSI"} ELSE {})

\* ISP_OUT after a transmission of bytes ending in lastByte
LinesAfterTx(tx, out, lastByte) ==
    IF tx = "sw" THEN SwLines(out, lastByte) ELSE out

(***************************************************************************)
(* The simulated target                                                    *)
(***************************************************************************)
\* sets of tiers at which a target answers the programming-enable sequence
AllTiers == USBASP_ISP_SCK_0_5..USBASP_ISP_SCK_3000
TargetKinds == {{}, {USBASP_ISP_SCK_0_5}, {5}, {USBASP_ISP_SCK_1500}, AllTiers}

Cells == {CurrHiaddr(a) : a \in Addresses} \X {a % 131072 : a \in Addresses}

\* the cell a command addresses: extended byte, then addr[16:8], addr[7:0]
\* and the low/high byte selector of the opcode
CellOf(ext, cmd) == <<ext, (cmd[2] * 256 + cmd[3]) * 2 + ((cmd[1] \div 8) % 2)>>

\* byte exchanged during the third programming-enable byte
EchoAt(answers, tier) == IF tier \in answers THEN 83 ELSE 0

\* the target after a reset pulse: out of programming mode, idle
TargetReset(t) == [t EXCEPT !.prog = FALSE, !.busy = "ready"]

\* the target after the 4 byte command cmd
TargetCmd(t, cmd) ==
    IF ~t.prog THEN t
    ELSE CASE cmd[1] = 77 -> [t EXCEPT !.ext = cmd[3]]
           [] cmd[1] \in {64, 72} /\ CellOf(t.ext, cmd) \in Cells ->
                  [t EXCEPT !.mem[CellOf(t.ext, cmd)] = cmd[4],
                            !.busy = "byte"]
           [] cmd[1] = 76 -> [t EXCEPT !.busy = "page"]
           [] OTHER -> t

\* the bytes the target may return in the 4th exchange of a read command
ReadReplies(t, cmd) ==
    IF ~t.prog THEN Data
    ELSE CASE t.busy = "byte" -> {127}
           [] t.busy = "page" -> {255}
           [] OTHER -> IF CellOf(t.ext, cmd) \in Cells
                       THEN {t.mem[CellOf(t.ext, cmd)]}
                       ELSE {255}

\* a target that stalls may finish its write at any moment or never; one
\* that does not has finished before the next command arrives
TargetProgress(t) ==
    IF t.stalls THEN {t, [t EXCEPT !.busy = "ready"]}
    ELSE {[t EXCEPT !.busy = "ready"]}

(***************************************************************************)
(* Initial state: globals zero-initialised, lines inputs, SPI off.  The   *)
(* target and the requests of the host are the environment.               *)
(***************************************************************************)
NoStart == [tier |-> 0, configured |-> FALSE]

InitWith(kinds, stalling, builds, requests) ==
    /\ DANGEROUS_MODE \in builds
    /\ prog_sck = USBASP_ISP_SCK_AUTO
    /\ ispTransmit = "none"
    /\ SPCR = {}
    /\ SPSR = {}
    /\ sck_sw_delay = 0
    /\ isp_hiaddr = 0
    /\ ISP_DDR = {}
    /\ ISP_OUT = {}
    /\ TIMERVALUE = 0
    /\ pc = "idle"
    /\ spiTx = "none"
    /\ tries = 0
    /\ retries = 0
    /\ starttime = 0
    /\ call = [op |-> "none"]
    /\ ret = 0
    /\ \E k \in kinds, st \in stalling :
           target = [answers |-> k, stalls |-> st, prog |-> FALSE, ext |-> 0,
                     mem |-> [c \in Cells |-> 255], busy |-> "ready"]
    /\ host = requests
    /\ obs = [wire |-> <<>>, waits |-> 0, reads |-> 0, windows |-> 0,
              ext |-> -1, connected |-> FALSE, pending |-> FALSE,
              first |-> FALSE, written |-> -1, log |-> <<>>,
              start |-> NoStart, again |-> FALSE]

\* what every operation forgets about the previous one
ObsReset == [obs EXCEPT !.wire = <<>>, !.waits = 0, !.reads = 0,
                        !.windows = 0, !.first = FALSE, !.written = -1,
                        !.log = <<>>, !.start = NoStart, !.again = FALSE]

\* the same at the start of a flash access, which may be the first one
\* since connect
ObsFlash == [ObsReset EXCEPT !.first = obs.pending, !.pending = FALSE]

(***************************************************************************)
(* Dispatcher: USBASP_FUNC_SETISPSCK stores the requested option           *)
(***************************************************************************)
SetISPSCK ==
    /\ pc = "idle"
    /\ \E option \in host.options : prog_sck' = option
    /\ call' = [op |-> "set_sck"]
    /\ obs' = ObsReset
    /\ ret' = 0
    /\ UNCHANGED <<DANGEROUS_MODE, ispTransmit, SPCR, SPSR, sck_sw_delay,
                   isp_hiaddr, ISP_DDR, ISP_OUT, TIMERVALUE, pc, spiTx, tries,
                   retries, starttime, target, host>>

(***************************************************************************)
(* configure                                                               *)
(***************************************************************************)
ispSetSCKOption ==
    /\ pc = "idle"
    /\ \E option \in host.options :
         LET cfg == SckConfig(option, SPCR, SPSR, sck_sw_delay)
         IN  /\ ispTransmit' = cfg.tx
             /\ SPCR' = cfg.SPCR
             /\ SPSR' = cfg.SPSR
             /\ sck_sw_delay' = cfg.delay
             /\ call' = [op |-> "configure", option |-> option]
    /\ obs' = ObsReset
    /\ ret' = 0
    /\ UNCHANGED <<DANGEROUS_MODE, prog_sck, isp_hiaddr, ISP_DDR, ISP_OUT,
                   TIMERVALUE, pc, spiTx, tries, retries, starttime,
                   target, host>>

(***************************************************************************)
(* connect / disconnect                                                    *)
(***************************************************************************)
ispConnect ==
    /\ pc = "idle"
    /\ ISP_DDR' = ISP_DDR \cup {"SCK", "MOSI", "RST"}
    /\ ISP_OUT' = (ISP_OUT \cup {"MISO"}) \ {"RST"}
    /\ isp_hiaddr' = 255
    /\ target' = TargetReset(target)
    /\ call' = [op |-> "connect"]
    /\ obs' = [ObsReset EXCEPT !.waits = 1, !.ext = -1, !.connected = TRUE,
                               !.pending = TRUE]
    /\ ret' = 0
    /\ UNCHANGED <<DANGEROUS_MODE, prog_sck, ispTransmit, SPCR, SPSR,
                   sck_sw_delay, TIMERVALUE, pc, spiTx, tries, retries,
                   starttime, host>>

ispDisconnect ==
    /\ pc = "idle"
    /\ ISP_DDR' = ISP_DDR \ {"RST", "SCK", "MOSI"}
    /\ ISP_OUT' = ISP_OUT \ {"RST", "SCK", "MOSI"}
    /\ SPCR' = spiHWdisable
    /\ target' = TargetReset(target)
    /\ call' = [op |-> "disconnect"]
    /\ obs' = [ObsReset EXCEPT !.again = (call.op = "disconnect")]
    /\ ret' = 0
    /\ UNCHANGED <<DANGEROUS_MODE, prog_sck, ispTransmit, SPSR, sck_sw_delay,
                   isp_hiaddr, TIMERVALUE, pc, spiTx, tries, retries,
                   starttime, host>>

(***************************************************************************)
(* enter_programming_mode                                                  *)
(***************************************************************************)
\* variant: one attempt fewer per tier
TriesPerTier_two == 2

\* number of attempts made per tier before stepping down
TriesPerTier == 3

\* the registers are the ones ispSetSCKOption(option) leaves
ConfiguredFor(option) ==
    LET cfg == SckConfig(option, SPCR, SPSR, sck_sw_delay)
    IN  /\ ispTransmit = cfg.tx
        /\ SPSR = cfg.SPSR
        /\ sck_sw_delay = cfg.delay
        /\ SPCR \ {"SPE", "MSTR"} = cfg.SPCR \ {"SPE", "MSTR"}

\* the tier the call starts at: an unset speed becomes the default
StartTier(sck) == IF sck = 0 THEN USBASP_ISP_SCK_1500 ELSE sck

\* entry of the function up to the first pass through the head of the
\* while loop: resolve an unset speed, capture the transport, enable SPI
ispEnterProgrammingMode ==
    /\ pc = "idle"
    /\ ispTransmit # "none"
    /\ prog_sck' = StartTier(prog_sck)
    /\ obs' = [ObsReset EXCEPT
                 !.start = [tier |-> StartTier(prog_sck),
                            configured |-> ConfiguredFor(StartTier(prog_sck))]]
    /\ spiTx' = ispTransmit
    /\ SPCR' = EnableIfHw(ispTransmit, SPCR)
    /\ tries' = TriesPerTier
    /\ pc' = "attempt"
    /\ call' = [op |-> "enter_programming_mode"]
    /\ ret' = 0
    /\ UNCHANGED <<DANGEROUS_MODE, ispTransmit, SPSR, sck_sw_delay,
                   isp_hiaddr, ISP_DDR, ISP_OUT, TIMERVALUE, retries,
                   starttime, target, host>>

\* variant: the two leading bytes are exchanged
ProgEnable_swapped == <<83, 172, 0, 0>>

\* spiTx(0xAC); spiTx(0x53); check = spiTx(0); spiTx(0);
ProgEnable == <<172, 83, 0, 0>>

\* clockWait(1) of the reset pulse plus clockWait(20 / 0.320), 62 as an
\* integer, before the bytes
AttemptWaits == 63

\* variant: the ladder skips every other tier
NextSlower_skip(sck) == sck - 2

\* the tier tried after a tier has failed
NextSlower(sck) == sck - 1

\* one pass through the do-while body: reset pulse, settle wait, the four
\* programming-enable bytes, and whatever follows the check
HandshakeAttempt ==
    /\ pc = "attempt"
    /\ TxWorks(spiTx, SPCR)
    /\ LET tier  == LinkTier(spiTx, SPCR, SPSR, sck_sw_delay)
           check == EchoAt(target.answers, tier)
           entry == [tier |-> prog_sck, link |-> tier, ok |-> check = 83]
       IN
       /\ ISP_OUT' = LinesAfterTx(spiTx, ISP_OUT \ {"RST"}, 0)
       /\ obs' = [obs EXCEPT !.wire = ProgEnable, !.waits = AttemptWaits,
                             !.log = Append(obs.log, entry)]
       /\ IF check = 83
          THEN \* success, with the optional speed bump
               /\ target' = [TargetReset(target) EXCEPT !.prog = TRUE]
               /\ pc' = "idle"
               /\ ret' = 0
               /\ spiTx' = "none"
               /\ tries' = 0
               /\ IF DANGEROUS_MODE
                  THEN LET cfg == SckConfig(U8(prog_sck + 1), spiHWdisable,
                                            SPSR, sck_sw_delay)
                       IN  /\ ispTransmit' = cfg.tx
                           /\ SPCR' = EnableIfHw(cfg.tx, cfg.SPCR)
                           /\ SPSR' = cfg.SPSR
                           /\ sck_sw_delay' = cfg.delay
                  ELSE UNCHANGED <<ispTransmit, SPCR, SPSR, sck_sw_delay>>
               /\ UNCHANGED prog_sck
          ELSE /\ target' = TargetReset(target)
               /\ IF tries - 1 # 0
                  THEN \* next try at the same tier
                       /\ tries' = tries - 1
                       /\ UNCHANGED <<prog_sck, ispTransmit, SPCR, SPSR,
                                      sck_sw_delay, spiTx, pc, ret>>
                  ELSE \* tier exhausted: SPI off, one tier down, loop test
                       LET sck == NextSlower(prog_sck)
                           cfg == SckConfig(sck, spiHWdisable, SPSR,
                                            sck_sw_delay)
                       IN  /\ prog_sck' = sck
                           /\ ispTransmit' = cfg.tx
                           /\ SPSR' = cfg.SPSR
                           /\ sck_sw_delay' = cfg.delay
                           /\ IF sck >= USBASP_ISP_SCK_0_5
                              THEN /\ spiTx' = cfg.tx
                                   /\ SPCR' = EnableIfHw(cfg.tx, cfg.SPCR)
                                   /\ tries' = TriesPerTier
                                   /\ UNCHANGED <<pc, ret>>
                              ELSE /\ SPCR' = cfg.SPCR
                                   /\ spiTx' = "none"
                                   /\ tries' = 0
                                   /\ pc' = "idle"
                                   /\ ret' = 1
    /\ UNCHANGED <<DANGEROUS_MODE, isp_hiaddr, ISP_DDR, TIMERVALUE, retries,
                   starttime, call, host>>

(***************************************************************************)
(* Addressing tracker: ispUpdateExtended                                   *)
(***************************************************************************)
\* variant: the command is sent but the cache keeps its old value
ExtUpdate_stale(cached, address) ==
    LET curr_hiaddr == CurrHiaddr(address)
    IN  IF cached # curr_hiaddr
        THEN [hiaddr |-> cached, wire |-> <<77, 0, curr_hiaddr, 0>>]
        ELSE [hiaddr |-> cached, wire |-> <<>>]

\* variant: the command is sent on every call
ExtUpdate_always(cached, address) ==
    [hiaddr |-> CurrHiaddr(address),
     wire |-> <<77, 0, CurrHiaddr(address), 0>>]

\* the cache and the bytes transmitted by ispUpdateExtended(address)
ExtUpdate(cached, address) ==
    LET curr_hiaddr == CurrHiaddr(address)
    IN  IF cached # curr_hiaddr
        THEN [hiaddr |-> curr_hiaddr, wire |-> <<77, 0, curr_hiaddr, 0>>]
        ELSE [hiaddr |-> cached, wire |-> <<>>]

\* the target after the bytes of ispUpdateExtended, if any
TargetAfterExt(t, u) == IF u.wire = <<>> THEN t ELSE TargetCmd(t, u.wire)

\* the last extended-address byte on the wire after ispUpdateExtended
ExtOnWire(u) == IF u.wire = <<>> THEN obs.ext ELSE u.wire[3]

(***************************************************************************)
(* Memory operations: command bytes                                        *)
(***************************************************************************)
\* variant: the address bytes are taken from the byte address
ReadCmd_byteaddr(address) ==
    <<32 + 8 * (address % 2), U8(Shr(address, 8)), U8(address), 0>>

\* variant: the read always selects the low byte of the word
ReadCmd_low(address) == <<32, U8(Shr(address, 9)), U8(Shr(address, 1)), 0>>

\* 0x20 | ((address & 1) << 3), address >> 9, address >> 1, 0
ReadCmd(address) ==
    <<32 + 8 * (address % 2), U8(Shr(address, 9)), U8(Shr(address, 1)), 0>>

\* variant: the fourth byte of the write command is zero
WriteCmd_nodata(address, data) ==
    <<64 + 8 * (address % 2), U8(Shr(address, 9)), U8(Shr(address, 1)), 0>>

\* 0x40 | ((address & 1) << 3), address >> 9, address >> 1, data
WriteCmd(address, data) ==
    <<64 + 8 * (address % 2), U8(Shr(address, 9)), U8(Shr(address, 1)), data>>

\* 0x4C, address >> 9, address >> 1, 0
PageCmd(address) == <<76, U8(Shr(address, 9)), U8(Shr(address, 1)), 0>>

\* retry budget of the polling loops
PollRetries == 30

\* variant: the fixed wait is taken for 0xFF instead of 0x7F
NoPollData_ff == 255

\* the value ispWriteFlash never polls for
NoPollData == 127

\* variant: the fixed wait is taken for 0x7F instead of 0xFF
NoPollValue_7f == 127

\* the poll value ispFlushPage never polls for
NoPollValue == 255

\* the byte a polled write_flash has just stored at address, if that is
\* what the previous operation was and the target took part in it
JustWritten(address) ==
    IF /\ call.op = "write_flash"
       /\ call.address = address
       /\ call.pollmode = 1
       /\ ret = 0
       /\ target.prog
    THEN call.data
    ELSE -1

\* the first transmission found the peripheral disabled: the wait on SPIF
\* never ends; ispUpdateExtended has already stored the new high byte
Hang(address) ==
    /\ pc' = "hang"
    /\ isp_hiaddr' = ExtUpdate(isp_hiaddr, address).hiaddr
    /\ obs' = ObsFlash
    /\ UNCHANGED <<ISP_OUT, TIMERVALUE, retries, starttime, ret, target>>

(***************************************************************************)
(* read_flash                                                              *)
(***************************************************************************)
ispReadFlash ==
    /\ pc = "idle"
    /\ ispTransmit # "none"
    /\ \E address \in host.addresses :
         LET u == ExtUpdate(isp_hiaddr, address)
         IN  /\ call' = [op |-> "read_flash", address |-> address]
             /\ IF TxWorks(ispTransmit, SPCR)
                THEN /\ isp_hiaddr' = u.hiaddr
                     /\ \E t \in TargetProgress(TargetAfterExt(target, u)) :
                          /\ target' = t
                          /\ ret' \in ReadReplies(t, ReadCmd(address))
                     /\ ISP_OUT' = LinesAfterTx(ispTransmit, ISP_OUT, 0)
                     /\ obs' = [ObsFlash EXCEPT
                                  !.wire = u.wire \o ReadCmd(address),
                                  !.reads = 1, !.ext = ExtOnWire(u),
                                  !.written = JustWritten(address)]
                     /\ UNCHANGED <<pc, TIMERVALUE, retries, starttime>>
                ELSE Hang(address)
    /\ UNCHANGED <<DANGEROUS_MODE, prog_sck, ispTransmit, SPCR, SPSR,
                   sck_sw_delay, ISP_DDR, spiTx, tries, host>>

(***************************************************************************)
(* write_flash                                                             *)
(***************************************************************************)
\* the call up to the point where it returns or enters the polling loop
ispWriteFlash ==
    /\ pc = "idle"
    /\ ispTransmit # "none"
    /\ \E address \in host.addresses, data \in host.data, pollmode \in 0..1 :
         LET u == ExtUpdate(isp_hiaddr, address)
             t == TargetCmd(TargetAfterExt(target, u), WriteCmd(address, data))
         IN  /\ call' = [op |-> "write_flash", address |-> address,
                         data |-> data, pollmode |-> pollmode]
             /\ IF TxWorks(ispTransmit, SPCR)
                THEN /\ isp_hiaddr' = u.hiaddr
                     /\ target' = t
                     /\ ISP_OUT' = LinesAfterTx(ispTransmit, ISP_OUT, data)
                     /\ IF pollmode = 0
                        THEN /\ obs' = [ObsFlash EXCEPT
                                   !.wire = u.wire \o WriteCmd(address, data),
                                   !.ext = ExtOnWire(u)]
                             /\ ret' = 0
                             /\ UNCHANGED <<pc, TIMERVALUE, retries,
                                            starttime>>
                        ELSE IF data = NoPollData
                        THEN /\ obs' = [ObsFlash EXCEPT
                                   !.wire = u.wire \o WriteCmd(address, data),
                                   !.ext = ExtOnWire(u), !.waits = 15]
                             /\ ret' = 0
                             /\ \E d \in host.ticks :
                                    TIMERVALUE' = U8(TIMERVALUE + d)
                             /\ UNCHANGED <<pc, retries, starttime>>
                        ELSE /\ obs' = [ObsFlash EXCEPT
                                   !.wire = u.wire \o WriteCmd(address, data),
                                   !.ext = ExtOnWire(u)]
                             /\ retries' = PollRetries
                             /\ starttime' = TIMERVALUE
                             /\ pc' = "pollW"
                             /\ UNCHANGED <<TIMERVALUE, ret>>
                ELSE Hang(address)
    /\ UNCHANGED <<DANGEROUS_MODE, prog_sck, ispTransmit, SPCR, SPSR,
                   sck_sw_delay, ISP_DDR, spiTx, tries, host>>

\* one pass through a polling loop: ispReadFlash(address), the test of the
\* value read against the busy value, the test of the timer (the two reads
\* of TIMERVALUE of an expired window are taken to return the same value)
PollIteration(busyValue) ==
    LET u == ExtUpdate(isp_hiaddr, call.address)
    IN  /\ TxWorks(ispTransmit, SPCR)
        /\ isp_hiaddr' = u.hiaddr
        /\ ISP_OUT' = LinesAfterTx(ispTransmit, ISP_OUT, 0)
        /\ \E t \in TargetProgress(TargetAfterExt(target, u)),
              d \in host.ticks :
             /\ target' = t
             /\ TIMERVALUE' = U8(TIMERVALUE + d)
             /\ \E r \in ReadReplies(t, ReadCmd(call.address)) :
                  IF r # busyValue
                  THEN /\ pc' = "idle"
                       /\ ret' = 0
                       /\ retries' = 0
                       /\ starttime' = 0
                       /\ obs' = [obs EXCEPT
                                    !.wire = u.wire \o ReadCmd(call.address),
                                    !.reads = 1, !.first = FALSE,
                                    !.ext = ExtOnWire(u)]
                  ELSE IF WindowExpired(TIMERVALUE', starttime)
                  THEN /\ obs' = [obs EXCEPT
                                    !.wire = u.wire \o ReadCmd(call.address),
                                    !.reads = 1, !.first = FALSE,
                                    !.ext = ExtOnWire(u),
                                    !.windows = obs.windows + 1]
                       /\ IF retries - 1 # 0
                          THEN /\ retries' = retries - 1
                               /\ starttime' = TIMERVALUE'
                               /\ UNCHANGED <<pc, ret>>
                          ELSE /\ retries' = 0
                               /\ starttime' = 0
                               /\ pc' = "idle"
                               /\ ret' = 1
                  ELSE /\ obs' = [obs EXCEPT
                                    !.wire = u.wire \o ReadCmd(call.address),
                                    !.reads = 1, !.first = FALSE,
                                    !.ext = ExtOnWire(u)]
                       /\ UNCHANGED <<pc, ret, retries, starttime>>
        /\ UNCHANGED <<DANGEROUS_MODE, prog_sck, ispTransmit, SPCR, SPSR,
                       sck_sw_delay, ISP_DDR, spiTx, tries, call, host>>

WriteFlashPoll ==
    /\ pc = "pollW"
    /\ PollIteration(127)

(***************************************************************************)
(* flush_page                                                              *)
(***************************************************************************)
ispFlushPage ==
    /\ pc = "idle"
    /\ ispTransmit # "none"
    /\ \E address \in host.addresses, pollvalue \in host.data :
         LET u == ExtUpdate(isp_hiaddr, address)
             t == TargetCmd(TargetAfterExt(target, u), PageCmd(address))
         IN  /\ call' = [op |-> "flush_page", address |-> address,
                         pollvalue |-> pollvalue]
             /\ IF TxWorks(ispTransmit, SPCR)
                THEN /\ isp_hiaddr' = u.hiaddr
                     /\ target' = t
                     /\ ISP_OUT' = LinesAfterTx(ispTransmit, ISP_OUT, 0)
                     /\ IF pollvalue = NoPollValue
                        THEN /\ obs' = [ObsFlash EXCEPT
                                   !.wire = u.wire \o PageCmd(address),
                                   !.ext = ExtOnWire(u), !.waits = 15]
                             /\ ret' = 0
                             /\ \E d \in host.ticks :
                                    TIMERVALUE' = U8(TIMERVALUE + d)
                             /\ UNCHANGED <<pc, retries, starttime>>
                        ELSE /\ obs' = [ObsFlash EXCEPT
                                   !.wire = u.wire \o PageCmd(address),
                                   !.ext = ExtOnWire(u)]
                             /\ retries' = PollRetries
                             /\ starttime' = TIMERVALUE
                             /\ pc' = "pollF"
                             /\ UNCHANGED <<TIMERVALUE, ret>>
                ELSE Hang(address)
    /\ UNCHANGED <<DANGEROUS_MODE, prog_sck, ispTransmit, SPCR, SPSR,
                   sck_sw_delay, ISP_DDR, spiTx, tries, host>>

FlushPagePoll ==
    /\ pc = "pollF"
    /\ PollIteration(255)

(***************************************************************************)
(* read_eeprom / write_eeprom                                              *)
(***************************************************************************)
\* conversion to unsigned int (16 bits on the AVR)
U16(x) == x % 65536

\* 0xA0, address >> 8, address, 0
ReadEEPROMCmd(address) == <<160, U8(Shr(address, 8)), U8(address), 0>>

\* 0xC0, address >> 8, address, data
WriteEEPROMCmd(address, data) ==
    <<192, U8(Shr(address, 8)), U8(address), data>>

\* variant: the EEPROM write is followed by a shorter wait
EEPROMWait_short == 15

\* clockWait(30) after the EEPROM write command
EEPROMWait == 30

\* the first transmission of an EEPROM operation found the peripheral
\* disabled: the wait on SPIF never ends
HangEEPROM ==
    /\ pc' = "hang"
    /\ obs' = ObsReset
    /\ UNCHANGED <<ISP_OUT, TIMERVALUE, ret, target>>

ispReadEEPROM ==
    /\ pc = "idle"
    /\ ispTransmit # "none"
    /\ \E address \in {U16(a) : a \in host.addresses} :
         /\ call' = [op |-> "read_eeprom", address |-> address]
         /\ IF TxWorks(ispTransmit, SPCR)
            THEN /\ target' = TargetCmd(target, ReadEEPROMCmd(address))
                 /\ ret' \in Data
                 /\ ISP_OUT' = LinesAfterTx(ispTransmit, ISP_OUT, 0)
                 /\ obs' = [ObsReset EXCEPT !.wire = ReadEEPROMCmd(address)]
                 /\ UNCHANGED <<pc, TIMERVALUE>>
            ELSE HangEEPROM
    /\ UNCHANGED <<DANGEROUS_MODE, prog_sck, ispTransmit, SPCR, SPSR,
                   sck_sw_delay, isp_hiaddr, ISP_DDR, spiTx, tries, retries,
                   starttime, host>>

ispWriteEEPROM ==
    /\ pc = "idle"
    /\ ispTransmit # "none"
    /\ \E address \in {U16(a) : a \in host.addresses}, data \in host.data :
         /\ call' = [op |-> "write_eeprom", address |-> address,
                     data |-> data]
         /\ IF TxWorks(ispTransmit, SPCR)
            THEN /\ target' = TargetCmd(target, WriteEEPROMCmd(address, data))
                 /\ ret' = 0
                 /\ ISP_OUT' = LinesAfterTx(ispTransmit, ISP_OUT, data)
                 /\ obs' = [ObsReset EXCEPT
                              !.wire = WriteEEPROMCmd(address, data),
                              !.waits = EEPROMWait]
                 /\ \E d \in host.ticks : TIMERVALUE' = U8(TIMERVALUE + d)
                 /\ UNCHANGED pc
            ELSE HangEEPROM
    /\ UNCHANGED <<DANGEROUS_MODE, prog_sck, ispTransmit, SPCR, SPSR,
                   sck_sw_delay, isp_hiaddr, ISP_DDR, spiTx, tries, retries,
                   starttime, host>>

(***************************************************************************)
(* Specifications                                                          *)
(***************************************************************************)
NoRequests == [options |-> Options, addresses |-> {}, data |-> {},
               ticks |-> TickAdvances]

\* the handshake alone, against every kind of target
InitHandshake == InitWith(TargetKinds, {FALSE}, BOOLEAN, NoRequests)

NextHandshake == SetISPSCK \/ ispSetSCKOption
                 \/ ispEnterProgrammingMode \/ HandshakeAttempt

SpecHandshake == InitHandshake /\ [][NextHandshake]_vars

(***************************************************************************)
(* Writing and reading back, low and high bytes, two windows               *)
(***************************************************************************)
RoundTripRequests ==
    [options |-> {USBASP_ISP_SCK_32, USBASP_ISP_SCK_1500},
     addresses |-> {0, 1, 33423361},
     data |-> {18, 127}, ticks |-> {128}]

InitRoundTrip == InitWith({AllTiers}, {TRUE}, {FALSE}, RoundTripRequests)

NextRoundTrip == ispSetSCKOption \/ ispEnterProgrammingMode
                 \/ HandshakeAttempt \/ ispReadFlash \/ ispWriteFlash
                 \/ WriteFlashPoll

SpecRoundTrip == InitRoundTrip /\ [][NextRoundTrip]_vars

(***************************************************************************)
(* The polling loops against a target that may stay busy                   *)
(***************************************************************************)
PollRequests == [options |-> {USBASP_ISP_SCK_32}, addresses |-> {0},
                 data |-> {18, 255}, ticks |-> {32, 64, 224}]

InitPoll == InitWith({AllTiers}, {TRUE}, {FALSE}, PollRequests)

NextPoll == ispSetSCKOption \/ ispEnterProgrammingMode \/ HandshakeAttempt
            \/ ispWriteFlash \/ WriteFlashPoll \/ ispFlushPage
            \/ FlushPagePoll

\* the firmware keeps executing the loop it is in
SpecPoll == /\ InitPoll
            /\ [][NextPoll]_vars
            /\ WF_vars(WriteFlashPoll)
            /\ WF_vars(FlushPagePoll)

(***************************************************************************)
(* configure over every option                                             *)
(***************************************************************************)
ConfigureRequests == [options |-> 0..MaxOption, addresses |-> {},
                      data |-> {}, ticks |-> {}]

InitConfigure == InitWith({AllTiers}, {FALSE}, {FALSE}, ConfigureRequests)

NextConfigure == SetISPSCK \/ ispSetSCKOption

SpecConfigure == InitConfigure /\ [][NextConfigure]_vars

(***************************************************************************)
(* Properties of the handshake                                             *)
(***************************************************************************)
\* a call of enter_programming_mode has returned
HandshakeReturned == pc = "idle" /\ call.op = "enter_programming_mode"

\* C1: started with the link configured for its start tier, against a
\* target that echoes 0x53 only at the slowest tier, the handshake makes
\* exactly 3 failed attempts at every tier from the start tier down to
\* tier 2, in that order, then one successful attempt at the slowest tier,
\* and returns 0 with prog_sck at the slowest tier.
C1_LadderToSlowest ==
    (HandshakeReturned /\ obs.start.configured /\ target.answers = {1})
    => LET n == Len(obs.log)
       IN  /\ ret = 0
           /\ prog_sck = 1
           /\ n = 3 * (obs.start.tier - 1) + 1
           /\ \A i \in 1..(n - 1) :
                  /\ ~obs.log[i].ok
                  /\ obs.log[i].tier = obs.start.tier - ((i - 1) \div 3)
           /\ obs.log[n].ok
           /\ obs.log[n].tier = 1
           /\ obs.log[n].link = 1

\* a handshake that began at a hardware tier has walked the whole ladder
C1_Witness ==
    /\ HandshakeReturned
    /\ obs.start.configured
    /\ target.answers = {1}
    /\ obs.start.tier >= 12
    /\ ret = 0
    /\ Len(obs.log) > 30

\* C2 as stated: whenever the target echoes 0x53 at some tier of the ladder
\* the handshake returns success, whatever the start tier.
C2_SuccessIfAnyTierAnswers ==
    (HandshakeReturned /\ obs.start.configured /\ target.answers # {})
    => ret = 0

\* C2 amended: the handshake started with the link configured for its
\* start tier returns success if and only if the target echoes 0x53 at a
\* tier between the start tier and the slowest tier.
C2_SuccessIffTierAtOrBelowStart ==
    (HandshakeReturned /\ obs.start.configured)
    => (ret = 0 <=> \E t \in target.answers : t <= obs.start.tier)

\* a target answering only in the middle of the software range was reached
\* from a hardware start tier
C2_Witness ==
    /\ HandshakeReturned
    /\ obs.start.configured
    /\ target.answers = {5}
    /\ obs.start.tier = 13
    /\ ret = 0
    /\ prog_sck = 5

(***************************************************************************)
(* Flash accesses of a session, across the extended-address windows        *)
(***************************************************************************)
ExtRequests == [options |-> {USBASP_ISP_SCK_32, USBASP_ISP_SCK_1500},
                addresses |-> {a \in Addresses : a % 2 = 0},
                data |-> {18}, ticks |-> {256}]

InitExt == InitWith({AllTiers}, {FALSE}, {FALSE}, ExtRequests)

NextExt == ispSetSCKOption \/ ispConnect \/ ispDisconnect
           \/ ispEnterProgrammingMode \/ HandshakeAttempt
           \/ ispReadFlash \/ ispWriteFlash \/ WriteFlashPoll
           \/ ispFlushPage \/ FlushPagePoll

SpecExt == InitExt /\ [][NextExt]_vars

(***************************************************************************)
(* Properties of the addressing tracker                                    *)
(***************************************************************************)
FlashOps == {"read_flash", "write_flash", "flush_page"}

\* the step transmits the bytes of a flash access (its first command, or a
\* readback of its polling loop) and the transmission came back
FlashStep ==
    /\ pc \in {"idle", "pollW", "pollF"}
    /\ call'.op \in FlashOps
    /\ pc' # "hang"
    /\ obs'.wire # <<>>

\* bits 17..24 of an address
HighByte(address) == (address \div 131072) % 256

\* C3: a step of read_flash, write_flash or flush_page puts the 4 bytes
\* 0x4D, 0x00, high byte, 0x00 on the wire, ahead of its own command, if and
\* only if the high byte of its address differs from isp_hiaddr as it was
\* before the step; when they are equal only the 4 bytes of the command
\* itself are transmitted.
C3_ExtSentIffChanged ==
    [][FlashStep =>
         LET hi == HighByte(call'.address)
         IN  IF isp_hiaddr # hi
             THEN /\ Len(obs'.wire) = 8
                  /\ SubSeq(obs'.wire, 1, 4) = <<77, 0, hi, 0>>
                  /\ obs'.wire[5] # 77
             ELSE /\ Len(obs'.wire) = 4
                  /\ obs'.wire[1] # 77]_vars

\* the command was sent for an address past the 8 bits kept of the high
\* byte, and left out by the readback that followed in the same window
C3_Witness ==
    /\ pc = "idle"
    /\ call.op = "write_flash"
    /\ call.address = 33554432
    /\ call.pollmode = 1
    /\ Len(obs.wire) = 4
    /\ obs.ext = 0
    /\ isp_hiaddr = 0
    /\ target.ext = 0
    /\ obs.connected

\* the last step was the first flash access since connect, and returned
FirstAccess == obs.first /\ call.op \in FlashOps /\ pc # "hang"

\* C4 as stated: the first flash access after connect transmits the
\* load-extended-address command whatever its address.
C4_FirstAccessAlwaysSends ==
    FirstAccess =>
        /\ Len(obs.wire) = 8
        /\ SubSeq(obs.wire, 1, 4) = <<77, 0, HighByte(call.address), 0>>

\* C4 amended: the first flash access after connect transmits the
\* load-extended-address command for every address whose high byte is not
\* 0xFF; for a high byte of 0xFF, the value connect stores in the cache,
\* it transmits only its own command.
C4_FirstAccessSendsUnlessSentinel ==
    FirstAccess =>
        IF HighByte(call.address) # 255
        THEN /\ Len(obs.wire) = 8
             /\ SubSeq(obs.wire, 1, 4) = <<77, 0, HighByte(call.address), 0>>
        ELSE Len(obs.wire) = 4

\* address 0 was the first access after connect and the command went out
C4_Witness ==
    /\ FirstAccess
    /\ call.address = 0
    /\ Len(obs.wire) = 8
    /\ obs.wire[3] = 0
    /\ target.prog

\* the cache agrees with the wire: the last extended-address byte sent
\* since connect, or the sentinel
CacheCoherent == isp_hiaddr = (IF obs.ext = -1 THEN 255 ELSE obs.ext)

C7_RoundTrip ==
    (pc = "idle" /\ call.op = "read_flash"
       /\ obs.written \notin {-1, 127, 255})
    => ret = obs.written

\* the high byte of a word in the sentinel window was written, polled and
\* read back while its low byte stayed erased
C7_Witness ==
    /\ pc = "idle"
    /\ call.op = "read_flash"
    /\ call.address = 33423361
    /\ obs.written = 18
    /\ ret = 18
    /\ target.mem[<<target.ext, 1>>] = 18
    /\ target.mem[<<target.ext, 0>>] = 255

\* C8: write_flash with polling enabled and data 0x7F returns 0 in one
\* step, after clockWait(15), having transmitted only its write command
\* (and the extended-address command when due): no read command goes out
\* and the polling loop is never entered, whatever state the target is in.
C8_FixedWaitFor7F ==
    (call.op = "write_flash" /\ call.data = 127 /\ call.pollmode = 1
       /\ pc # "hang")
    => /\ pc = "idle"
       /\ ret = 0
       /\ obs.waits = 15
       /\ obs.reads = 0
       /\ Len(obs.wire) \in {4, 8}
       /\ \A i \in {1, 5} :
              i <= Len(obs.wire) => obs.wire[i] \notin {32, 40}
       /\ obs.wire[Len(obs.wire) - 3] \in {64, 72}
       /\ obs.wire[Len(obs.wire)] = 127

\* 0x7F was written with polling to a target that is still busy
C8_Witness ==
    /\ pc = "idle"
    /\ call.op = "write_flash"
    /\ call.data = 127
    /\ call.pollmode = 1
    /\ ret = 0
    /\ target.prog
    /\ target.busy = "byte"
    /\ obs.waits = 15

(***************************************************************************)
(* Properties of the polling loops                                         *)
(***************************************************************************)
Polling == pc \in {"pollW", "pollF"}

\* a polled write_flash or flush_page has returned failure
PollFailed ==
    /\ pc = "idle"
    /\ call.op \in {"write_flash", "flush_page"}
    /\ ret = 1

\* the safety half of C6: failure is returned only once 30 windows, each
\* measured by the firmware as more than CLOCK_T_320us ticks, have expired
PollFailsOnlyAfterBudget == PollFailed => obs.windows = 30

\* C6: with the timer advancing on every iteration, a polling loop of
\* write_flash or flush_page always returns, and it returns failure only
\* after exactly 30 timeout windows have expired.
C6_PollBounded ==
    /\ [](PollFailed => obs.windows = 30)
    /\ (Polling ~> pc = "idle")

(***************************************************************************)
(* Properties of configure                                                 *)
(***************************************************************************)
\* bit_delay of the software tiers 1 (slowest) to 7 (fastest)
DelayTable == <<192, 96, 48, 24, 12, 6, 3>>

\* C9: configure(option) selects the hardware transport for the automatic
\* request and for every option from 8 (93.75 kHz) up, and the software
\* transport for the options 1 to 7, where it leaves sck_sw_delay at
\* 3 << (7 - option): 192, 96, 48, 24, 12, 6, 3, doubling with every step
\* down and never exceeding 8 bits.
C9_TransportAndDelay ==
    (pc = "idle" /\ call.op = "configure")
    => IF call.option = 0 \/ call.option >= 8
       THEN ispTransmit = "hw"
       ELSE /\ ispTransmit = "sw"
            /\ sck_sw_delay = DelayTable[call.option]
            /\ sck_sw_delay <= 255
            /\ \A t \in 1..7 :
                   t < call.option => DelayTable[t] > sck_sw_delay

\* the slowest software tier was configured
C9_Witness ==
    /\ pc = "idle"
    /\ call.op = "configure"
    /\ call.option = 1
    /\ ispTransmit = "sw"
    /\ sck_sw_delay = 192

(***************************************************************************)
(* Properties of the transports                                            *)
(***************************************************************************)
\* C10: whenever the software transport is the active one, the hardware
\* peripheral is disabled (SPE clear in SPCR).
C10_SoftwareMeansSpiOff == ispTransmit = "sw" => "SPE" \notin SPCR

(***************************************************************************)
(* Sessions: connect, disconnect, configure, the handshake and the EEPROM  *)
(* operations in any order, against a silent and an answering target       *)
(***************************************************************************)
SessionRequests ==
    [options |-> {USBASP_ISP_SCK_32, USBASP_ISP_SCK_1500},
     addresses |-> {4660}, data |-> {255}, ticks |-> {256}]

InitSession == InitWith({{}, AllTiers}, {FALSE}, BOOLEAN, SessionRequests)

NextSession == ispSetSCKOption \/ ispConnect \/ ispDisconnect
               \/ ispEnterProgrammingMode \/ HandshakeAttempt
               \/ ispReadEEPROM \/ ispWriteEEPROM

SpecSession == InitSession /\ [][NextSession]_vars

\* SPE and MSTR are set
MasterEnabled == {"SPE", "MSTR"} \subseteq SPCR

\* the part of C11 that concerns the handshake: every attempt that goes
\* through ispTransmit_hw finds the peripheral enabled as master
HandshakeHwEnabled == (pc = "attempt" /\ spiTx = "hw") => MasterEnabled

\* C11: every attempt of the handshake that transmits through
\* ispTransmit_hw finds the peripheral enabled as master, and no memory
\* operation ever starts a transmission through ispTransmit_hw with the
\* peripheral disabled (which would leave it waiting on SPIF for ever).
C11_HwTransmitEnabled == HandshakeHwEnabled /\ pc # "hang"

\* the second of two consecutive calls of disconnect
SecondDisconnect ==
    pc = "idle" /\ call.op = "disconnect" /\ call'.op = "disconnect"

\* C12: a call of disconnect that directly follows a call of disconnect
\* returns without error and leaves the line direction bits, the line
\* output bits, the peripheral registers and the session state (transport,
\* bit delay, speed tier, cached high address) as the first call left
\* them.
C12_DisconnectIdempotent ==
    [][SecondDisconnect =>
         /\ ret' = 0
         /\ pc' = "idle"
         /\ UNCHANGED <<ISP_DDR, ISP_OUT, SPCR, SPSR, ispTransmit,
                        sck_sw_delay, prog_sck, isp_hiaddr, TIMERVALUE,
                        DANGEROUS_MODE>>]_vars

\* disconnect was called twice in a row at the end of a session that used
\* both the peripheral and the software transport
C12_Witness ==
    /\ pc = "idle"
    /\ call.op = "disconnect"
    /\ obs.again
    /\ obs.connected
    /\ ispTransmit = "sw"
    /\ SPSR = {"SPI2X"}
    /\ SPCR = {}
    /\ ISP_DDR = {}

\* the lines ispDisconnect names
ControlLines == {"RST", "SCK", "MOSI"}

\* the part of C13 the code keeps: after disconnect the three control
\* lines are inputs without pull-up and the peripheral is disabled
DisconnectReleasesControlLines ==
    (pc = "idle" /\ call.op = "disconnect")
    => /\ ISP_DDR \cap ControlLines = {}
       /\ ISP_OUT \cap ControlLines = {}
       /\ SPCR = {}

\* C13: after connect followed, with any operations in between, by
\* disconnect, the three control lines are inputs, no output bit (pull-up)
\* is left set on any line of the link, the data-in line included, and the
\* peripheral is disabled.
C13_DisconnectReleasesLink ==
    (pc = "idle" /\ call.op = "disconnect" /\ obs.connected)
    => /\ ISP_DDR \cap ControlLines = {}
       /\ ISP_OUT = {}
       /\ "SPE" \notin SPCR

(***************************************************************************)
(* The attempts of the handshake                                           *)
(***************************************************************************)
\* the firmware keeps executing the handshake loop it is in
SpecHandshakeFair == SpecHandshake /\ WF_vars(HandshakeAttempt)

\* a call of enter_programming_mode is running or was the last operation
InHandshake == call.op = "enter_programming_mode"

\* the attempts made so far by the running or the last handshake: three
\* per tier from the start tier down in steps of one, each a reset pulse,
\* the settle wait and 0xAC 0x53 0x00 0x00, none after an echo of 0x53
AttemptsInOrder ==
    LET n == Len(obs.log)
        s == obs.start.tier
    IN  /\ n <= 3 * s
        /\ \A i \in 1..n : obs.log[i].tier = s - ((i - 1) \div 3)
        /\ \A i \in 1..(n - 1) : ~obs.log[i].ok
        /\ n > 0 => /\ obs.wire = <<172, 83, 0, 0>>
                    /\ obs.waits = 63
                    /\ "RST" \notin ISP_OUT
        /\ pc = "attempt" =>
               /\ n < 3 * s
               /\ prog_sck = s - (n \div 3)
               /\ tries = 3 - (n % 3)
               /\ (n > 0 /\ n % 3 = 0 /\ ispTransmit = "sw") => SPCR = {}
        /\ pc = "idle" =>
               /\ n > 0
               /\ ret = (IF obs.log[n].ok THEN 0 ELSE 1)
               /\ ret = 0 => prog_sck = obs.log[n].tier
               /\ ret = 1 => /\ n = 3 * s
                             /\ obs.log[n].tier = 1
                             /\ "SPE" \notin SPCR

\* C14: a handshake makes at most 3 attempts per tier, each a reset pulse,
\* the settle wait and the bytes 0xAC, 0x53, 0x00, 0x00; it returns success
\* at the first attempt whose third byte echoes 0x53 and makes no attempt
\* after it; 3 failed attempts at a tier disable the peripheral and lower
\* the tier by exactly one; failure is returned only after 3 failed
\* attempts at the slowest tier; and every call returns, after at most
\* 3 * start tier attempts.
C14_AttemptSequence ==
    /\ [](InHandshake => AttemptsInOrder)
    /\ (pc = "attempt" ~> HandshakeReturned)

\* a handshake entered with no speed set walked the 12 tiers below the
\* default against a silent target and returned failure
C14_Witness ==
    /\ HandshakeReturned
    /\ ret = 1
    /\ obs.start.tier = 12
    /\ Len(obs.log) = 36
    /\ target.answers = {}
    /\ prog_sck = 0

\* the transport configure selects for a tier
TierTransport(tier) == IF tier >= 8 THEN "hw" ELSE "sw"

\* the part of C15 the code keeps: once the handshake has stepped down, the
\* attempts go through the transport and the registers that
\* ispSetSCKOption leaves for the current tier
SteppedDownUsesTierTransport ==
    (pc = "attempt" /\ Len(obs.log) >= 3)
    => /\ spiTx = ispTransmit
       /\ spiTx = TierTransport(prog_sck)
       /\ ConfiguredFor(prog_sck)

\* C15: every attempt of the handshake sends its bytes through the
\* transport that configure selects for the current speed tier, with the
\* divider of the default tier when the call resolved an unset speed to
\* it, whatever transport was active before the call.
C15_AttemptUsesTierTransport ==
    pc = "attempt"
    => /\ spiTx = TierTransport(prog_sck)
       /\ (spiTx = "hw" /\ prog_sck = 12) => DivideRatio(SPCR, SPSR) = 8

(***************************************************************************)
(* The command bytes of the flash operations, for addresses whose middle   *)
(* bytes differ and for two windows, against a target that may stay busy   *)
(***************************************************************************)
CommandRequests ==
    [options |-> {USBASP_ISP_SCK_1500},
     addresses |-> {1, 74570, 74571, 33423361},
     data |-> {18, 127, 255}, ticks |-> {128}]

InitCommands == InitWith({AllTiers}, {TRUE}, {FALSE}, CommandRequests)

NextCommands == ispSetSCKOption \/ ispEnterProgrammingMode
                \/ HandshakeAttempt \/ ispReadFlash \/ ispWriteFlash
                \/ WriteFlashPoll \/ ispFlushPage \/ FlushPagePoll

SpecCommands == InitCommands /\ [][NextCommands]_vars

\* the step is a call of operation op whose transmissions come back
Calls(op) == pc = "idle" /\ call'.op = op /\ pc' # "hang"

\* C16: a call of write_flash with pollmode 0 returns 0 in the same step,
\* having transmitted its 4 byte write command (after the 4 bytes of the
\* extended-address command when due) and nothing else: no read command,
\* no wait, no use of the timer, for every address and every data byte,
\* 0x7F included.
C16_NoPollReturnsAtOnce ==
    [][(Calls("write_flash") /\ call'.pollmode = 0) =>
         LET w == obs'.wire
             n == Len(w)
         IN  /\ pc' = "idle"
             /\ ret' = 0
             /\ n \in {4, 8}
             /\ w[n - 3] \in {64, 72}
             /\ w[n] = call'.data
             /\ n = 8 => w[1] = 77
             /\ obs'.reads = 0
             /\ obs'.waits = 0
             /\ obs'.windows = 0
             /\ UNCHANGED <<TIMERVALUE, retries, starttime>>]_vars

\* 0x7F was written without polling and the call returned while the target
\* was still busy with it
C16_Witness ==
    /\ pc = "idle"
    /\ call.op = "write_flash"
    /\ call.pollmode = 0
    /\ call.data = 127
    /\ call.address = 33423361
    /\ ret = 0
    /\ obs.wire = <<77, 0, 255, 0, 72, 0, 0, 127>>
    /\ target.prog
    /\ target.busy = "byte"

\* C19: read_flash and write_flash transmit, after the extended-address
\* command when due, exactly 4 bytes: 0x20 (read) or 0x40 (write) with bit
\* 3 set iff the address is odd, (address >> 9) mod 256, (address >> 1)
\* mod 256, and 0 (read) or the data byte (write); read_flash returns the
\* byte the target sends in the fourth exchange.
C19_CommandBytes ==
    [][(Calls("read_flash") \/ Calls("write_flash")) =>
         LET a == call'.address
             w == obs'.wire
             n == Len(w)
             read == call'.op = "read_flash"
             cell == <<target'.ext, a % 131072>>
         IN  /\ n \in {4, 8}
             /\ n = 8 => w[1] = 77
             /\ w[n - 3] = (IF read THEN 32 ELSE 64)
                             + (IF a % 2 = 1 THEN 8 ELSE 0)
             /\ w[n - 2] = (a \div 512) % 256
             /\ w[n - 1] = (a \div 2) % 256
             /\ w[n] = (IF read THEN 0 ELSE call'.data)
             /\ (read /\ target'.prog /\ target'.busy = "ready"
                      /\ cell \in DOMAIN target'.mem)
                => ret' = target'.mem[cell]]_vars

\* the high byte of a word whose address bytes differ was read
C19_Witness ==
    /\ pc = "idle"
    /\ call.op = "read_flash"
    /\ call.address = 74571
    /\ obs.wire = <<40, 145, 165, 0>>
    /\ target.prog

\* the last 4 bytes of a transmission
LastFour(w) == SubSeq(w, Len(w) - 3, Len(w))

\* the call of flush_page up to its return or its entry into the loop
FlushCallAsClaimed ==
    LET a == call'.address
        w == obs'.wire
    IN  /\ Len(w) \in {4, 8}
        /\ Len(w) = 8 => w[1] = 77
        /\ LastFour(w) = <<76, (a \div 512) % 256, (a \div 2) % 256, 0>>
        /\ obs'.reads = 0
        /\ IF call'.pollvalue = 255
           THEN pc' = "idle" /\ ret' = 0 /\ obs'.waits = 15
           ELSE pc' = "pollF" /\ obs'.waits = 0 /\ obs'.windows = 0

\* one readback of the polling loop of flush_page
FlushPollAsClaimed ==
    LET a == call.address
        cell == <<target'.ext, a % 131072>>
        success == pc' = "idle" /\ ret' = 0
        failure == pc' = "idle" /\ ret' = 1
    IN  /\ call' = call
        /\ LastFour(obs'.wire) =
               <<32 + (IF a % 2 = 1 THEN 8 ELSE 0), (a \div 512) % 256,
                 (a \div 2) % 256, 0>>
        /\ success \/ failure \/ pc' = "pollF"
        /\ (target'.prog /\ target'.busy = "page") => ~success
        /\ (target'.prog /\ target'.busy = "ready"
               /\ cell \in DOMAIN target'.mem /\ target'.mem[cell] # 255)
           => success
        /\ failure => obs'.windows = 30
        /\ pc' = "pollF" => obs'.windows < 30

\* C17: flush_page transmits 0x4C, address >> 9, address >> 1, 0x00; with
\* a poll value of 0xFF it waits clockWait(15) and returns 0 without a
\* readback; otherwise it reads the same address back again and again,
\* returns 0 at the first readback that is not 0xFF and returns 1 only
\* when 30 windows have expired with every readback equal to 0xFF.
C17_FlushPage ==
    [][/\ Calls("flush_page") => FlushCallAsClaimed
       /\ pc = "pollF" => FlushPollAsClaimed]_vars

\* a page was flushed over a byte written before, and the readback turned
\* to the byte in the last of the 30 windows
C17_Witness ==
    /\ pc = "idle"
    /\ call.op = "flush_page"
    /\ call.address = 1
    /\ call.pollvalue = 18
    /\ ret = 0
    /\ obs.windows = 29
    /\ target.prog
    /\ target.mem[<<0, 1>>] = 18

(***************************************************************************)
(* Properties of the divider                                               *)
(***************************************************************************)
\* divide ratios of the hardware tiers 8 (93.75 kHz) to 13 (3 MHz)
RatioTable == <<128, 64, 32, 16, 8, 4>>

\* C18: configure leaves SPR1, SPR0 and SPI2X so that the clock is divided
\* by 4, 8, 16, 32, 64, 128 for the tiers 3000, 1500, 750, 375, 187.5 and
\* 93.75 kHz: every step down doubles the ratio, and SPI2X is set for the
\* 1500 and 375 kHz tiers only.
C18_DivideRatios ==
    (pc = "idle" /\ call.op = "configure" /\ call.option \in 8..13)
    => /\ ispTransmit = "hw"
       /\ DivideRatio(SPCR, SPSR) = RatioTable[call.option - 7]
       /\ ("SPI2X" \in SPSR) <=> (call.option \in {12, 10})
       /\ call.option < 13 =>
              RatioTable[call.option - 7] = 2 * RatioTable[call.option - 6]

\* the 375 kHz tier was configured: divide by 64, doubled
C18_Witness ==
    /\ pc = "idle"
    /\ call.op = "configure"
    /\ call.option = 10
    /\ SPCR = {"SPR1"}
    /\ SPSR = {"SPI2X"}

(***************************************************************************)
(* Properties of the EEPROM operations                                     *)
(***************************************************************************)
\* C20: read_eeprom and write_eeprom leave isp_hiaddr, the transport,
\* sck_sw_delay and prog_sck as they were, transmit exactly one command of
\* 4 bytes (0xA0 or 0xC0, address >> 8, address, 0 or the data byte) and
\* never the extended-address command; write_eeprom waits clockWait(30)
\* and returns 0 without reading anything back.
C20_EepromFrame ==
    [][(Calls("read_eeprom") \/ Calls("write_eeprom")) =>
         LET a == call'.address
             w == obs'.wire
             write == call'.op = "write_eeprom"
         IN  /\ UNCHANGED <<isp_hiaddr, ispTransmit, sck_sw_delay, prog_sck>>
             /\ obs'.ext = obs.ext
             /\ Len(w) = 4
             /\ w[1] = (IF write THEN 192 ELSE 160)
             /\ w[2] = (a \div 256) % 256
             /\ w[3] = a % 256
             /\ w[4] = (IF write THEN call'.data ELSE 0)
             /\ pc' = "idle"
             /\ obs'.reads = 0
             /\ write => (ret' = 0 /\ obs'.waits = 30)]_vars

\* a byte was written to the EEPROM over the software transport in a
\* connected session, before any flash access
C20_Witness ==
    /\ pc = "idle"
    /\ call.op = "write_eeprom"
    /\ obs.wire = <<192, 18, 52, 255>>
    /\ obs.waits = 30
    /\ ret = 0
    /\ ispTransmit = "sw"
    /\ isp_hiaddr = 255
    /\ obs.connected
    /\ target.prog

====
